---- MODULE Spec2Model ----
(***************************************************************************)
(* A model of samhiveparser.py: the decoders of the SAM hive's V and F     *)
(* value blobs (decode_username, decode_f_value) and the loop over the     *)
(* user subkeys (parse_sam_hive).                                          *)
(*                                                                         *)
(* Conventions.  A blob is a sequence of bytes (0..255); TLA+ sequences    *)
(* are 1-based, so Python's byte offset k is element k+1.  A decoded       *)
(* Python str is a sequence of code points; the fixed texts the program    *)
(* prints are sequences of one-character strings (last login) or strings   *)
(* (labels, messages).  A Python call either returns or raises: an         *)
(* outcome is [exc |-> "none", val |-> v] or [exc |-> type, msg |-> m].    *)
(* Python integers are unbounded; the 64-bit FILETIME is kept as its       *)
(* little-endian base-256 digits and divided digit by digit, so that no    *)
(* intermediate value leaves the 32-bit integers of TLC.                   *)
(***************************************************************************)
EXTENDS Integers, Sequences, FiniteSets, TLC

VARIABLES
    v_blob,       \* decode_username's argument
    username,     \* decode_username's outcome (Pending before the call)
    f_blob,       \* decode_f_value's argument
    f_result,     \* decode_f_value's outcome (Pending before the call)
    pc,           \* parse_sam_hive's position
    enumerated,   \* the subkeys users_key.subkeys() has yielded so far
    stdout        \* the lines parse_sam_hive has printed

vars == <<v_blob, username, f_blob, f_result, pc, enumerated, stdout>>

----------------------------------------------------------------------------
(* Python values *)

Min(a, b) == IF a < b THEN a ELSE b

Ok(v) == [exc |-> "none", val |-> v]

Raise(type, message) == [exc |-> type, msg |-> message]

\* b[i:j] for 0 <= i, j: both ends are clamped to the length, never an error.
Slice(b, i, j) == SubSeq(b, Min(i, Len(b)) + 1, Min(j, Len(b)))

\* The classes `except Exception` catches, among those this program can raise.
ExceptionSubclasses ==
    {"struct.error", "OverflowError", "RegistryValueNotFoundException"}

\* struct.unpack("<H", buf)[0]
unpack_H(buf) ==
    IF Len(buf) # 2
    THEN Raise("struct.error", "unpack requires a buffer of 2 bytes")
    ELSE Ok(buf[1] + 256 * buf[2])

\* struct.unpack("<I", buf)[0].  The inputs keep the top byte under 0x80, so
\* that the value stays within TLC's integers.
unpack_I(buf) ==
    IF Len(buf) # 4
    THEN Raise("struct.error", "unpack requires a buffer of 4 bytes")
    ELSE Ok(buf[1] + 256 * buf[2] + 65536 * buf[3] + 16777216 * buf[4])

\* struct.unpack("<Q", buf)[0]: the value as its little-endian digits.
unpack_Q(buf) ==
    IF Len(buf) # 8
    THEN Raise("struct.error", "unpack requires a buffer of 8 bytes")
    ELSE Ok(buf)

----------------------------------------------------------------------------
(* bytes.decode('utf-16le', errors='replace') and str.strip() *)

IsHighSurrogate(u) == u >= 55296 /\ u <= 56319    \* D800..DBFF

IsLowSurrogate(u) == u >= 56320 /\ u <= 57343     \* DC00..DFFF

ReplacementChar == 65533                           \* U+FFFD

RECURSIVE Utf16leDecode(_)
Utf16leDecode(data) ==
    IF Len(data) = 0 THEN <<>>
    ELSE IF Len(data) = 1 THEN <<ReplacementChar>>          \* truncated data
    ELSE LET u == data[1] + 256 * data[2]
             rest == SubSeq(data, 3, Len(data))
         IN  IF IsHighSurrogate(u)
             THEN IF Len(rest) >= 2 /\ IsLowSurrogate(rest[1] + 256 * rest[2])
                  THEN <<65536 + (u - 55296) * 1024
                               + (rest[1] + 256 * rest[2] - 56320)>>
                       \o Utf16leDecode(SubSeq(rest, 3, Len(rest)))
                  ELSE IF Len(rest) < 2
                  THEN <<ReplacementChar>>                  \* unexpected end
                  ELSE <<ReplacementChar>> \o Utf16leDecode(rest)
             ELSE IF IsLowSurrogate(u)
             THEN <<ReplacementChar>> \o Utf16leDecode(rest)
             ELSE <<u>> \o Utf16leDecode(rest)

\* str.isspace() of one character
IsSpace(c) ==
    \/ c >= 9 /\ c <= 13
    \/ c >= 28 /\ c <= 32
    \/ c \in {133, 160, 5760, 8232, 8233, 8239, 8287, 12288}
    \/ c >= 8192 /\ c <= 8202

RECURSIVE LStrip(_)
LStrip(s) == IF s # <<>> /\ IsSpace(Head(s)) THEN LStrip(Tail(s)) ELSE s

RECURSIVE RStrip(_)
RStrip(s) ==
    IF s # <<>> /\ IsSpace(s[Len(s)]) THEN RStrip(SubSeq(s, 1, Len(s) - 1))
    ELSE s

\* Mutant of Strip: only the leading whitespace is removed.
Strip_LeadingOnly(s) == LStrip(s)

Strip(s) == RStrip(LStrip(s))

----------------------------------------------------------------------------
(* decode_username *)

\* The username of lines 23-26, from the unpacked length and offset.
username_at(v, username_length_bytes, username_offset) ==
    Ok([kind |-> "text",
        chars |-> Strip(Utf16leDecode(
            Slice(v, username_offset,
                  username_offset + username_length_bytes)))])

\* Mutant of decode_username_try: the character count is taken for the byte
\* count.
decode_username_try_CharsAsBytes(v) ==
    LET username_length_chars == unpack_H(Slice(v, 12, 14))
        username_offset == unpack_I(Slice(v, 16, 20))
    IN  IF username_length_chars.exc # "none" THEN username_length_chars
        ELSE IF username_offset.exc # "none" THEN username_offset
        ELSE username_at(v, username_length_chars.val, username_offset.val)

\* The try block of decode_username: what it returns, or the exception
\* that leaves it.
decode_username_try(v) ==
    LET username_length_chars == unpack_H(Slice(v, 12, 14))
        username_offset == unpack_I(Slice(v, 16, 20))
    IN  IF username_length_chars.exc # "none" THEN username_length_chars
        ELSE IF username_offset.exc # "none" THEN username_offset
        ELSE username_at(v, username_length_chars.val * 2,
                         username_offset.val)

\* Mutant of decode_username_except: no handler, the exception goes on to
\* the caller.
decode_username_except_Reraise(o) == o

\* `except Exception as e: return f"Error decoding username: {e}"`, on the
\* outcome o of the try block.
decode_username_except(o) ==
    IF o.exc \in ExceptionSubclasses
    THEN Ok([kind |-> "message",
             text |-> "Error decoding username: " \o o.msg])
    ELSE o

decode_username(v) == decode_username_except(decode_username_try(v))

----------------------------------------------------------------------------
(* Unbounded naturals as little-endian base-256 digits *)

\* divmod(n, d) for a small divisor d: [q |-> digits, r |-> remainder]
RECURSIVE DivMod(_, _)
DivMod(n, d) ==
    IF n = <<>> THEN [q |-> <<>>, r |-> 0]
    ELSE LET hi == DivMod(Tail(n), d)
             cur == hi.r * 256 + Head(n)
         IN  [q |-> <<cur \div d>> \o hi.q, r |-> cur % d]

IsZero(n) == \A i \in 1..Len(n) : n[i] = 0

\* n * m + a on little-endian base-256 digits, for small m and a.
RECURSIVE MulAdd(_, _, _)
MulAdd(n, m, a) ==
    IF n = <<>>
    THEN IF a = 0 THEN <<>> ELSE <<a % 256>> \o MulAdd(<<>>, m, a \div 256)
    ELSE <<(Head(n) * m + a) % 256>>
         \o MulAdd(Tail(n), m, (Head(n) * m + a) \div 256)

\* The value of digits known to denote a small number.
RECURSIVE ToInt(_)
ToInt(n) == IF n = <<>> THEN 0 ELSE Head(n) + 256 * ToInt(Tail(n))

----------------------------------------------------------------------------
(* datetime *)

\* timedelta(microseconds=us): normalised to days, seconds, microseconds.
timedelta(us) ==
    LET a == DivMod(us, 1000000)
        b == DivMod(a.q, 86400)
    IN  [days |-> ToInt(b.q), seconds |-> b.r, microseconds |-> a.r]

DaysInMonth(m) ==
    CASE m \in {1, 3, 5, 7, 8, 10, 12} -> 31
      [] m \in {4, 6, 9, 11} -> 30
      [] OTHER -> 28

RECURSIVE DaysBeforeMonth(_)
DaysBeforeMonth(m) ==
    IF m = 1 THEN 0 ELSE DaysBeforeMonth(m - 1) + DaysInMonth(m - 1)

\* The tail of date.fromordinal: the date from the counts of whole 400-,
\* 100-, 4- and 1-year cycles before the day and the day's place n in its
\* year.
ymd_of_cycles(n400, n100, n4, n1, n) ==
    LET year == n400 * 400 + 1 + n100 * 100 + n4 * 4 + n1
        leap == IF n1 = 3 /\ (n4 # 24 \/ n100 = 3) THEN 1 ELSE 0
        guess == (n + 50) \div 32
        month == IF DaysBeforeMonth(guess) + (IF guess > 2 THEN leap ELSE 0) > n
                 THEN guess - 1 ELSE guess
        preceding == DaysBeforeMonth(month) + (IF month > 2 THEN leap ELSE 0)
    IN  IF n1 = 4 \/ n100 = 4
        THEN [year |-> year - 1, month |-> 12, day |-> 31]
        ELSE [year |-> year, month |-> month, day |-> n - preceding + 1]

\* date.fromordinal(n): ordinal 1 is 0001-01-01.
ord2ymd(ordinal) ==
    LET n0 == ordinal - 1
    IN  ymd_of_cycles(n0 \div 146097,
                      (n0 % 146097) \div 36524,
                      ((n0 % 146097) % 36524) \div 1461,
                      (((n0 % 146097) % 36524) % 1461) \div 365,
                      (((n0 % 146097) % 36524) % 1461) % 365)

\* date.max.toordinal(): 9999-12-31
MAXORDINAL == 3652059

\* datetime(1601, 1, 1).toordinal()
Epoch1601Ordinal == 584389

\* datetime.combine(date, time) for the seconds and microseconds of a day.
datetime_combine(ymd, seconds, microseconds) ==
    [year |-> ymd.year, month |-> ymd.month, day |-> ymd.day,
     hour |-> seconds \div 3600,
     minute |-> (seconds % 3600) \div 60,
     second |-> seconds % 60,
     microsecond |-> microseconds]

\* Mutant of datetime_1601_plus: no range check, the ordinal wraps around.
datetime_1601_plus_Wrapping(delta) ==
    Ok(datetime_combine(
           ord2ymd(((Epoch1601Ordinal + delta.days - 1) % MAXORDINAL) + 1),
           delta.seconds, delta.microseconds))

\* datetime.datetime(1601, 1, 1) + delta
datetime_1601_plus(delta) ==
    IF 0 < Epoch1601Ordinal + delta.days
       /\ Epoch1601Ordinal + delta.days <= MAXORDINAL
    THEN Ok(datetime_combine(ord2ymd(Epoch1601Ordinal + delta.days),
                             delta.seconds, delta.microseconds))
    ELSE Raise("OverflowError", "date value out of range")

Digit(d) ==
    CASE d = 0 -> "0" [] d = 1 -> "1" [] d = 2 -> "2" [] d = 3 -> "3"
      [] d = 4 -> "4" [] d = 5 -> "5" [] d = 6 -> "6" [] d = 7 -> "7"
      [] d = 8 -> "8" [] d = 9 -> "9"

Pad2(n) == <<Digit(n \div 10), Digit(n % 10)>>

Pad4(n) == Pad2(n \div 100) \o Pad2(n % 100)

\* dt.strftime("%Y-%m-%d %H:%M:%S")
strftime(dt) ==
    Pad4(dt.year) \o <<"-">> \o Pad2(dt.month) \o <<"-">> \o Pad2(dt.day)
    \o <<" ">> \o Pad2(dt.hour) \o <<":">> \o Pad2(dt.minute) \o <<":">>
    \o Pad2(dt.second)

----------------------------------------------------------------------------
(* decode_f_value *)

Never == <<"N", "e", "v", "e", "r">>

Unknown == <<"U", "n", "k", "n", "o", "w", "n">>

\* Mutant of password_not_required: the neighbouring bit 0x10 is tested.
password_not_required_Bit0x10(account_flags) == (account_flags \div 16) % 2 = 1

\* bool(account_flags & 0x20)
password_not_required(account_flags) == (account_flags \div 32) % 2 = 1

\* Line 49, on the outcome of line 48.
last_login_text(last_login_dt) ==
    IF last_login_dt.exc # "none" THEN last_login_dt
    ELSE Ok(strftime(last_login_dt.val))

\* Mutant of decode_last_login: the 100 ns ticks are taken for microseconds.
decode_last_login_NoDivision(f) ==
    LET timestamp == unpack_Q(Slice(f, 8, 16))
    IN  IF timestamp.exc # "none" THEN timestamp
        ELSE IF IsZero(timestamp.val) THEN Ok(Never)
        ELSE last_login_text(datetime_1601_plus(timedelta(timestamp.val)))

\* Lines 43-49: the last login text, or the exception.
decode_last_login(f) ==
    LET timestamp == unpack_Q(Slice(f, 8, 16))
    IN  IF timestamp.exc # "none" THEN timestamp
        ELSE IF IsZero(timestamp.val) THEN Ok(Never)
        ELSE last_login_text(
                 datetime_1601_plus(timedelta(DivMod(timestamp.val, 10).q)))

\* Lines 50-53: the password policy text, or the exception.
decode_password_policy(f) ==
    LET account_flags == unpack_I(Slice(f, 24, 28))
    IN  IF account_flags.exc # "none" THEN account_flags
        ELSE Ok(IF password_not_required(account_flags.val)
                THEN "No Password Required" ELSE "Password Required")

\* Line 54 after lines 43-53: the statements run in order, and the first
\* exception leaves the block.
last_login_then_policy(last_login, password_policy) ==
    IF last_login.exc # "none" THEN last_login
    ELSE IF password_policy.exc # "none" THEN password_policy
    ELSE Ok([last_login |-> last_login.val,
             password_policy |-> password_policy.val])

\* The try block of decode_f_value: what it returns, or the exception that
\* leaves it.
decode_f_value_try(f) ==
    last_login_then_policy(decode_last_login(f), decode_password_policy(f))

\* `except Exception as e: return "Unknown", f"Error: {e}"`, on the outcome
\* o of the try block.
decode_f_value_except(o) ==
    IF o.exc \in ExceptionSubclasses
    THEN Ok([last_login |-> Unknown, password_policy |-> "Error: " \o o.msg])
    ELSE o

decode_f_value(f) == decode_f_value_except(decode_f_value_try(f))

----------------------------------------------------------------------------
(* The hive access library, as parse_sam_hive uses it *)

\* subkey.value(name).value(): the value's bytes, or the library's
\* RegistryValueNotFoundException when the subkey has no such value.
subkey_value(subkey, name) ==
    IF name \in DOMAIN subkey.values
    THEN Ok(subkey.values[name])
    ELSE Raise("RegistryValueNotFoundException", "value not found: " \o name)

----------------------------------------------------------------------------
(* parse_sam_hive: one pass of the loop over users_key.subkeys() *)

Line(label, val) == [label |-> label, val |-> val]

\* Mutant of IsNamesSubkey: the name is compared without regard to case.
IsNamesSubkey_AnyCase(subkey) == subkey.name \in {"Names", "names", "NAMES"}

\* subkey.name() == "Names"
IsNamesSubkey(subkey) == subkey.name = "Names"

\* Lines 86-91: the three lines, or the exception of a decoder.
print_fields(name, f) ==
    IF name.exc # "none" THEN name
    ELSE IF f.exc # "none" THEN f
    ELSE Ok(<<Line("Username", name.val),
              Line("Last Login", f.val.last_login),
              Line("Password Policy", f.val.password_policy)>>)

\* Lines 82-91: the lines the try block prints, or the exception that
\* leaves it.
process_subkey_try(subkey) ==
    LET v_val == subkey_value(subkey, "V")
        f_val == subkey_value(subkey, "F")
    IN  IF v_val.exc # "none" THEN v_val
        ELSE IF f_val.exc # "none" THEN f_val
        ELSE print_fields(decode_username(v_val.val),
                          decode_f_value(f_val.val))

\* `except Exception as e: print(f"Error processing subkey ...: {e}")`, on
\* the outcome o of the try block.
process_subkey_except(subkey, o) ==
    IF o.exc \in ExceptionSubclasses
    THEN Ok(<<Line("Error processing subkey",
                   [name |-> subkey.name, msg |-> o.msg])>>)
    ELSE o

\* Line 81, then what the try statement printed, and the exception that
\* leaves parse_sam_hive if the handler did not catch it.
pass_of(subkey, done) ==
    [printed |-> <<Line("User RID", subkey.name)>>
                 \o (IF done.exc = "none" THEN done.val ELSE <<>>),
     exc |-> done.exc]

\* Lines 81-93: one pass over a user subkey.
process_subkey(subkey) ==
    pass_of(subkey, process_subkey_except(subkey, process_subkey_try(subkey)))

----------------------------------------------------------------------------
(* Inputs: V blobs *)

MaxNameChars == 2     \* stored names have up to this many UTF-16 code units

MaxPad == 12          \* bytes between the V header and the name data

\* Code units the stored names are made of: space, J, e-acute, a high and
\* a low surrogate.
NameUnits == {32, 74, 233, 55357, 56832}

StoredNames == UNION {[1..k -> NameUnits] : k \in 0..MaxNameChars}

\* The name "Jane" of the spec's end-to-end scenario.
Jane == <<74, 97, 110, 101>>

RECURSIVE Utf16leEncode(_)
Utf16leEncode(units) ==
    IF units = <<>> THEN <<>>
    ELSE <<Head(units) % 256, Head(units) \div 256>>
         \o Utf16leEncode(Tail(units))

U16LE(n) == <<n % 256, n \div 256>>

U32LE(n) == U16LE(n % 65536) \o U16LE(n \div 65536)

Zeros(k) == [i \in 1..k |-> 0]

\* A V blob: a 0x14-byte header declaring charLength at 0x0C and dataOffset
\* at 0x10, `pad` filler bytes, then the stored name in UTF-16LE.
VBlob(charLength, dataOffset, pad, stored) ==
    Zeros(12) \o U16LE(charLength) \o Zeros(2) \o U32LE(dataOffset)
    \o [i \in 1..pad |-> 170] \o Utf16leEncode(stored)

\* The lengths a blob of length n is cut to.
CutLengths(n) == {0, 13, 14, 19, 20, n - 1, n} \cap 0..n

\* Declared character counts: exact, short, long, and the largest u16.
CharLengths == 0..(MaxNameChars + 1) \cup {65535}

\* Declared offsets for data at `start` in a blob of `n` bytes: exact,
\* misaligned, past the data, inside the header, at and past the end, huge.
DataOffsets(start, n) ==
    {start, start + 1, start + 2, 16, n, n + 1, 2130706432 + start}

VBlobs ==
    {SubSeq(VBlob(4, 20 + MaxPad, MaxPad, Jane), 1, cut) :
        cut \in CutLengths(28 + MaxPad)}
    \cup
    UNION {UNION {UNION {UNION {
        {SubSeq(VBlob(cl, off, pad, stored), 1, cut) :
            cut \in CutLengths(20 + pad + 2 * Len(stored))} :
        off \in DataOffsets(20 + pad, 20 + pad + 2 * Len(stored))} :
        cl \in CharLengths} :
        pad \in {0, MaxPad}} :
        stored \in StoredNames}

----------------------------------------------------------------------------
(* Inputs: F blobs *)

MaxFTail == 2         \* bytes of an F blob after the flags word

Timestamps == {
    <<0, 0, 0, 0, 0, 0, 0, 0>>,              \* never
    <<1, 0, 0, 0, 0, 0, 0, 0>>,              \* 1 tick
    <<9, 0, 0, 0, 0, 0, 0, 0>>,              \* 9 ticks: still microsecond 0
    <<10, 0, 0, 0, 0, 0, 0, 0>>,             \* the first microsecond
    <<127, 150, 152, 0, 0, 0, 0, 0>>,        \* last tick of the first second
    <<128, 150, 152, 0, 0, 0, 0, 0>>,        \* 1601-01-01 00:00:01
    <<128, 41, 209, 41, 201, 0, 0, 0>>,      \* 1601-01-01 23:59:59
    <<0, 192, 105, 42, 201, 0, 0, 0>>,       \* 1601-01-02
    <<128, 41, 46, 120, 209, 30, 1, 0>>,     \* 1601-12-31 23:59:59
    <<0, 152, 56, 167, 58, 139, 3, 0>>,      \* 1604-02-29 12:34:56
    <<0, 0, 27, 227, 69, 123, 4, 0>>,        \* 1604-12-31, day 366
    <<255, 127, 37, 117, 58, 44, 111, 0>>,   \* 1700-02-28 23:59:59.9999999
    <<0, 128, 37, 117, 58, 44, 111, 0>>,     \* 1700-03-01: no leap year
    <<0, 128, 204, 235, 71, 130, 191, 1>>,   \* 2000-02-29: a leap year
    <<128, 41, 5, 200, 133, 115, 192, 1>>,   \* 2000-12-31 23:59:59
    <<0, 192, 157, 200, 133, 115, 192, 1>>,  \* 2001-01-01
    <<0, 108, 1, 167, 50, 96, 202, 1>>,      \* 129021310000000000
    <<135, 45, 38, 236, 32, 227, 218, 1>>,   \* 2024-07-31 08:09:10.1234567
    <<255, 63, 192, 209, 94, 90, 200, 36>>,  \* 9999-12-31 23:59:59.9999999
    <<0, 64, 192, 209, 94, 90, 200, 36>>,    \* the first tick past 9999
    <<0, 0, 0, 0, 0, 0, 0, 128>>,            \* 2^63
    <<255, 255, 255, 255, 255, 255, 255, 255>>}
    \cup
    \* one non-zero byte, at each place
    {[i \in 1..8 |-> IF i = k THEN b ELSE 0] : k \in 1..8, b \in {1, 255}}

MaxDay == 1460        \* midnights from 1601-01-01 on: four years of days

\* The FILETIME of the midnight `day` days after 1601-01-01.
Midnight(day) ==
    LET ticks == MulAdd(MulAdd(MulAdd(<<>>, 1, day), 86400, 0), 10000, 0)
        digits == MulAdd(ticks, 1000, 0)
    IN  [i \in 1..8 |-> IF i <= Len(digits) THEN digits[i] ELSE 0]

\* Flag words: bit 0x20 alone, with others, absent, and the same bit
\* pattern in each other byte.
FlagWords == {
    <<0, 0, 0, 0>>, <<32, 0, 0, 0>>, <<32, 2, 0, 0>>, <<0, 2, 0, 0>>,
    <<16, 0, 0, 0>>, <<64, 0, 0, 0>>, <<223, 255, 255, 127>>,
    <<255, 255, 255, 127>>, <<0, 32, 0, 0>>, <<0, 0, 32, 0>>,
    <<0, 0, 0, 32>>}

\* An F blob: the FILETIME at 0x08, the flag word at 0x18, `fill`
\* everywhere else.
FBlob(timestamp, flags, fill) ==
    [i \in 1..8 |-> fill] \o timestamp \o [i \in 1..8 |-> fill] \o flags
    \o [i \in 1..MaxFTail |-> fill]

FBlobs ==
    UNION {UNION {UNION {
        {SubSeq(FBlob(ts, fl, fill), 1, cut) :
            cut \in {0, 8, 15, 16, 20, 27, 28, 28 + MaxFTail}} :
        fill \in {0, 32, 255}} :
        fl \in FlagWords} :
        ts \in Timestamps}
    \cup
    {FBlob(Midnight(day), <<32, 2, 0, 0>>, 0) : day \in 1..MaxDay}

----------------------------------------------------------------------------
(* Inputs: the subkeys of the Users key *)

MaxSubkeys == 2       \* subkeys the Users key holds

\* The index subkey, a name that differs from it only in case, and a RID.
SubkeyNames == {"Names", "names", "000001F4"}

HiveVBlobs ==
    LET jane == VBlob(4, 20 + MaxPad, MaxPad, Jane)
    IN  {<<>>,                              \* empty: no header
         SubSeq(jane, 1, Len(jane) - 4),    \* the name range runs past the end
         jane}

HiveFBlobs ==
    LET never == <<0, 0, 0, 0, 0, 0, 0, 0>>
        past9999 == <<0, 64, 192, 209, 94, 90, 200, 36>>
    IN  {<<>>,                                             \* empty
         SubSeq(FBlob(never, <<32, 0, 0, 0>>, 0), 1, 20),  \* no flags word
         FBlob(never, <<32, 0, 0, 0>>, 0),
         FBlob(past9999, <<0, 2, 0, 0>>, 0)}

\* A subkey: its name and its values, of which V or F may be missing.
Subkeys ==
    {[name |-> n, values |-> [k \in {"V", "F"} |-> IF k = "V" THEN v ELSE f]] :
        n \in SubkeyNames, v \in HiveVBlobs, f \in HiveFBlobs}
    \cup
    {[name |-> n, values |-> [k \in {"V"} |-> v]] :
        n \in SubkeyNames, v \in HiveVBlobs}
    \cup
    {[name |-> n, values |-> [k \in {"F"} |-> f]] :
        n \in SubkeyNames, f \in HiveFBlobs}
    \cup
    {[name |-> n, values |-> <<>>] : n \in SubkeyNames}

----------------------------------------------------------------------------
(* parse_sam_hive *)

\* A decoder's outcome variable while it is not in use, and before its call.
Idle == [exc |-> "idle"]

Pending == [exc |-> "pending"]

Init ==
    /\ pc = "open_hive"
    /\ enumerated = <<>>
    /\ stdout = <<>>
    /\ v_blob = <<>>
    /\ username = Idle
    /\ f_blob = <<>>
    /\ f_result = Idle

decoders == <<v_blob, username, f_blob, f_result>>

\* Lines 65-69: Registry.Registry(sam_path) opens the hive, or raises and
\* parse_sam_hive prints the error and returns.
OpenHive ==
    /\ pc = "open_hive"
    /\ \/ /\ pc' = "open_users"
          /\ stdout' = stdout
       \/ /\ pc' = "done"
          /\ stdout' = Append(stdout, Line("Error opening SAM hive", "e"))
    /\ UNCHANGED <<enumerated, decoders>>

\* Lines 71-75: reg.open(...) finds the Users key, or raises and
\* parse_sam_hive prints the error and returns.
OpenUsersKey ==
    /\ pc = "open_users"
    /\ \/ /\ pc' = "loop"
          /\ stdout' = stdout
       \/ /\ pc' = "done"
          /\ stdout' = Append(stdout, Line("Error accessing Users key", "e"))
    /\ UNCHANGED <<enumerated, decoders>>

\* Lines 77-79: the iterator yields a subkey named "Names": `continue`.
SkipNames(subkey) ==
    /\ pc = "loop"
    /\ Len(enumerated) < MaxSubkeys
    /\ IsNamesSubkey(subkey)
    /\ enumerated' = Append(enumerated, subkey)
    /\ UNCHANGED <<pc, stdout, decoders>>

\* Lines 77-93: the iterator yields a user's subkey; the pass prints its
\* lines and the loop goes on, unless an exception leaves the function.
ProcessSubkey(subkey) ==
    /\ pc = "loop"
    /\ Len(enumerated) < MaxSubkeys
    /\ ~IsNamesSubkey(subkey)
    /\ enumerated' = Append(enumerated, subkey)
    /\ LET pass == process_subkey(subkey)
       IN  /\ stdout' = stdout \o pass.printed
           /\ pc' = IF pass.exc = "none" THEN "loop" ELSE "raised"
    /\ UNCHANGED decoders

\* Line 77: the iterator is exhausted and parse_sam_hive returns.
EndOfSubkeys ==
    /\ pc = "loop"
    /\ pc' = "done"
    /\ UNCHANGED <<enumerated, stdout, decoders>>

Next ==
    \/ OpenHive
    \/ OpenUsersKey
    \/ \E subkey \in Subkeys : SkipNames(subkey)
    \/ \E subkey \in Subkeys : ProcessSubkey(subkey)
    \/ EndOfSubkeys

Spec == Init /\ [][Next]_vars

----------------------------------------------------------------------------
(* decode_username, called on any V blob *)

hive == <<pc, enumerated, stdout>>

InitUsername ==
    /\ v_blob \in VBlobs
    /\ username = Pending
    /\ f_blob = <<>>
    /\ f_result = Idle
    /\ pc = "idle"
    /\ enumerated = <<>>
    /\ stdout = <<>>

CallDecodeUsername ==
    /\ username = Pending
    /\ username' = decode_username(v_blob)
    /\ UNCHANGED <<v_blob, f_blob, f_result, hive>>

NextUsername == CallDecodeUsername

SpecUsername == InitUsername /\ [][NextUsername]_vars

----------------------------------------------------------------------------
(* decode_f_value, called on any F blob *)

InitFValue ==
    /\ f_blob \in FBlobs
    /\ f_result = Pending
    /\ v_blob = <<>>
    /\ username = Idle
    /\ pc = "idle"
    /\ enumerated = <<>>
    /\ stdout = <<>>

CallDecodeFValue ==
    /\ f_result = Pending
    /\ f_result' = decode_f_value(f_blob)
    /\ UNCHANGED <<f_blob, v_blob, username, hive>>

NextFValue == CallDecodeFValue

SpecFValue == InitFValue /\ [][NextFValue]_vars

----------------------------------------------------------------------------
(* What the claims speak of: decode_username *)

UsernameReturned == username.exc = "none"

\* charLength, the u16 at 0x0C, and dataOffset, the u32 at 0x10, of a V blob
\* of at least 0x14 bytes.
CharLength(v) == v[13] + 256 * v[14]

DataOffset(v) == v[17] + 256 * (v[18] + 256 * (v[19] + 256 * v[20]))

\* The declared name range [dataOffset, dataOffset + 2*charLength) lies
\* entirely inside the blob.
NameRangeInside(v) ==
    /\ Len(v) >= 20
    /\ DataOffset(v) + 2 * CharLength(v) <= Len(v)

\* The UTF-16LE code units of the declared range, for a range inside.
DeclaredUnits(v) ==
    [i \in 1..CharLength(v) |->
        v[DataOffset(v) + 2 * i - 1] + 256 * v[DataOffset(v) + 2 * i]]

IsPrintableAscii(u) == u >= 32 /\ u <= 126

HoldsPrintableAscii(v) ==
    /\ NameRangeInside(v)
    /\ \A i \in 1..CharLength(v) : IsPrintableAscii(DeclaredUnits(v)[i])

\* r is s without its leading and trailing spaces.
IsTrimOf(r, s) ==
    /\ r = <<>> \/ (r[1] # 32 /\ r[Len(r)] # 32)
    /\ \E i \in 1..(Len(s) + 1) :
          /\ r = SubSeq(s, i, i + Len(r) - 1)
          /\ i + Len(r) - 1 <= Len(s)
          /\ \A k \in 1..Len(s) : (k < i \/ k > i + Len(r) - 1) => s[k] = 32

(* C2: for every V blob whose declared name range is not entirely inside   *)
(* the blob, decode_username yields a decode error and no string built     *)
(* from a shortened or empty byte range.                                   *)
C2_OutOfRangeIsError ==
    (UsernameReturned /\ Len(v_blob) >= 20 /\ ~NameRangeInside(v_blob))
        => username.val.kind = "message"

(* C9, as stated: a name of N printable-ASCII characters whose range lies  *)
(* inside the blob decodes to exactly those N characters.                  *)
C9_ExactName ==
    (UsernameReturned /\ HoldsPrintableAscii(v_blob))
        => /\ username.val.kind = "text"
           /\ username.val.chars = DeclaredUnits(v_blob)

(* C9, amended: such a name decodes to its characters with the leading     *)
(* and trailing spaces removed, so to exactly its N characters when it     *)
(* neither begins nor ends with a space.                                   *)
C9_NameUpToTrim ==
    (UsernameReturned /\ HoldsPrintableAscii(v_blob))
        => /\ username.val.kind = "text"
           /\ IsTrimOf(username.val.chars, DeclaredUnits(v_blob))

C9_Witness ==
    /\ UsernameReturned
    /\ HoldsPrintableAscii(v_blob)
    /\ DataOffset(v_blob) = 32
    /\ DeclaredUnits(v_blob) = Jane
    /\ username.val.chars = Jane

(* C10: decode_username returns its error message exactly when the V blob  *)
(* is shorter than 20 bytes; otherwise it returns the stripped lossy       *)
(* decode of the bytes from dataOffset up to                               *)
(* min(dataOffset + 2*charLength, length), the empty string when           *)
(* dataOffset is at or past the end.                                       *)
C10_ErrorIffShort ==
    UsernameReturned =>
        /\ username.val.kind = "message" <=> Len(v_blob) < 20
        /\ Len(v_blob) >= 20 =>
              LET stop == Min(DataOffset(v_blob) + 2 * CharLength(v_blob),
                              Len(v_blob))
                  bytes == [i \in 1..(IF stop > DataOffset(v_blob)
                                      THEN stop - DataOffset(v_blob) ELSE 0)
                              |-> v_blob[DataOffset(v_blob) + i]]
              IN  /\ username.val.chars = Strip(Utf16leDecode(bytes))
                  /\ DataOffset(v_blob) >= Len(v_blob)
                        => username.val.chars = <<>>

C10_Witness ==
    /\ UsernameReturned
    /\ Len(v_blob) >= 20
    /\ DataOffset(v_blob) < Len(v_blob)
    /\ DataOffset(v_blob) + 2 * CharLength(v_blob) > Len(v_blob)
    /\ username.val.kind = "text"
    /\ username.val.chars # <<>>

----------------------------------------------------------------------------
(* What the claims speak of: decode_f_value *)

FValueReturned == f_result.exc = "none"

\* t, the little-endian unsigned 64-bit integer at bytes 8..16, as digits.
FileTime(f) == [i \in 1..8 |-> f[8 + i]]

\* a <= b on little-endian base-256 digits.
RECURSIVE Leq(_, _)
Leq(a, b) ==
    LET n == IF Len(a) > Len(b) THEN Len(a) ELSE Len(b)
        x == IF Len(a) = n THEN a[n] ELSE 0
        y == IF Len(b) = n THEN b[n] ELSE 0
    IN  IF n = 0 THEN TRUE
        ELSE IF x # y THEN x < y
        ELSE Leq(SubSeq(a, 1, Min(Len(a), n - 1)),
                 SubSeq(b, 1, Min(Len(b), n - 1)))

\* 2650467744000000000: the first FILETIME whose instant is past
\* 9999-12-31 23:59:59.999999.
FirstPastYear9999 == <<0, 64, 192, 209, 94, 90, 200, 36>>

Representable(t) == ~Leq(FirstPastYear9999, t)

IsLeapYear(y) == y % 4 = 0 /\ (y % 100 # 0 \/ y % 400 = 0)

MonthLength(y, m) ==
    IF m = 2 THEN (IF IsLeapYear(y) THEN 29 ELSE 28)
    ELSE IF m \in {4, 6, 9, 11} THEN 30 ELSE 31

\* The days from 1601-01-01 to the date y-m-d of the Gregorian calendar.
DaysSince1601(y, m, d) ==
    LET years == y - 1601
        before == <<0, 31, 59, 90, 120, 151, 181, 212, 243, 273, 304, 334>>
    IN  365 * years + years \div 4 - years \div 100 + years \div 400
        + before[m] + (IF m > 2 /\ IsLeapYear(y) THEN 1 ELSE 0) + (d - 1)

Digits == <<"0", "1", "2", "3", "4", "5", "6", "7", "8", "9">>

IsDigit(c) == \E i \in 1..10 : Digits[i] = c

DigitValue(c) == (CHOOSE i \in 1..10 : Digits[i] = c) - 1

\* The number the characters text[from..to] spell.
RECURSIVE Number(_, _, _)
Number(text, from, to) ==
    IF to < from THEN 0
    ELSE 10 * Number(text, from, to - 1) + DigitValue(text[to])

\* text has the shape YYYY-MM-DD HH:MM:SS.
IsDateText(text) ==
    /\ Len(text) = 19
    /\ text[5] = "-" /\ text[8] = "-" /\ text[11] = " "
    /\ text[14] = ":" /\ text[17] = ":"
    /\ \A i \in (1..19) \ {5, 8, 11, 14, 17} : IsDigit(text[i])

\* text is the instant 1601-01-01T00:00:00 plus floor(t / 10) microseconds,
\* cut to the second: a date of the calendar and a time of day whose
\* second S since 1601 satisfies S * 10^7 <= t <= S * 10^7 + 9999999.
IsInstantOf(text, t) ==
    /\ IsDateText(text)
    /\ LET y == Number(text, 1, 4)
           m == Number(text, 6, 7)
           d == Number(text, 9, 10)
           hh == Number(text, 12, 13)
           mm == Number(text, 15, 16)
           ss == Number(text, 18, 19)
       IN  /\ y >= 1601 /\ m \in 1..12 /\ d >= 1 /\ d <= MonthLength(y, m)
           /\ hh < 24 /\ mm < 60 /\ ss < 60
           /\ LET days == MulAdd(<<>>, 1, DaysSince1601(y, m, d))
                  seconds == MulAdd(days, 86400, hh * 3600 + mm * 60 + ss)
                  first == MulAdd(MulAdd(seconds, 10000, 0), 1000, 0)
                  last == MulAdd(MulAdd(seconds, 10000, 0), 1000, 9999999)
              IN  Leq(first, t) /\ Leq(t, last)

\* The policy bit 0x20 of the flags word decides: it lies in the byte at
\* offset 24.
PolicyOfBit(f) ==
    IF (f[25] \div 32) % 2 = 1 THEN "No Password Required"
    ELSE "Password Required"

(* C1: the last logon and the flags word are reported independently: a     *)
(* failure of the timestamp does not keep the policy from being derived    *)
(* from a readable flags word, and a failure of the flags word does not    *)
(* keep a decoded last logon from being reported.                          *)
C1_FieldsIndependent ==
    FValueReturned =>
        /\ Len(f_blob) >= 28 => f_result.val.password_policy = PolicyOfBit(f_blob)
        /\ Len(f_blob) >= 16 /\ IsZero(FileTime(f_blob))
              => f_result.val.last_login = Never
        /\ Len(f_blob) >= 16 /\ ~IsZero(FileTime(f_blob))
              /\ Representable(FileTime(f_blob))
              => IsInstantOf(f_result.val.last_login, FileTime(f_blob))

(* C6: for an F blob of at least 28 bytes, t = 0 is reported as "Never",   *)
(* and a non-zero representable t as the instant 1601-01-01T00:00:00 plus  *)
(* floor(t / 10) microseconds, rendered YYYY-MM-DD HH:MM:SS.               *)
C6_LastLogon ==
    (FValueReturned /\ Len(f_blob) >= 28) =>
        IF IsZero(FileTime(f_blob))
        THEN f_result.val.last_login = Never
        ELSE Representable(FileTime(f_blob))
                => IsInstantOf(f_result.val.last_login, FileTime(f_blob))

\* The spec's sample 129021310000000000 is 2009-11-08 05:16:40.
C6_Witness ==
    /\ FValueReturned
    /\ Len(f_blob) >= 28
    /\ FileTime(f_blob) = <<0, 108, 1, 167, 50, 96, 202, 1>>
    /\ f_result.val.last_login =
          <<"2", "0", "0", "9", "-", "1", "1", "-", "0", "8", " ",
            "0", "5", ":", "1", "6", ":", "4", "0">>

\* The decode succeeded: the try block ran to its return.
FDecodeSucceeded == FValueReturned /\ f_result.val.last_login # Unknown

C8_OutOfRange ==
    FValueReturned =>
        /\ (Len(f_blob) >= 16 /\ ~Representable(FileTime(f_blob)))
              => /\ f_result.val.last_login = Unknown
                 /\ f_result.val.password_policy
                       = "Error: date value out of range"
        /\ IsDateText(f_result.val.last_login)
              => Number(f_result.val.last_login, 1, 4) >= 1601

\* t = 2^64 - 1 in a blob that holds the flags word too.
C8_Witness ==
    /\ FValueReturned
    /\ Len(f_blob) >= 28
    /\ FileTime(f_blob) = <<255, 255, 255, 255, 255, 255, 255, 255>>
    /\ f_result.val.last_login = Unknown

----------------------------------------------------------------------------
(* What the claims speak of: parse_sam_hive *)

\* The enumerated subkeys that are not the "Names" index, in order.
RECURSIVE WithoutNames(_)
WithoutNames(subkeys) ==
    IF subkeys = <<>> THEN <<>>
    ELSE IF Head(subkeys).name = "Names" THEN WithoutNames(Tail(subkeys))
    ELSE <<Head(subkeys)>> \o WithoutNames(Tail(subkeys))

\* The emitted account records: each starts at a "User RID" line and runs
\* to the line before the next one.
RECURSIVE Records(_)
Records(lines) ==
    IF lines = <<>> THEN <<>>
    ELSE IF Head(lines).label # "User RID" THEN Records(Tail(lines))
    ELSE LET later == {i \in 2..Len(lines) : lines[i].label = "User RID"}
             next == IF later = {} THEN Len(lines) + 1
                     ELSE CHOOSE i \in later : \A j \in later : i <= j
         IN  <<SubSeq(lines, 1, next - 1)>>
             \o Records(SubSeq(lines, next, Len(lines)))

HasLine(record, label) == \E i \in 1..Len(record) : record[i].label = label

LineOf(record, label) ==
    record[CHOOSE i \in 1..Len(record) : record[i].label = label]

Has(subkey, name) == name \in DOMAIN subkey.values

(* C4: the emitted records, by their "User RID", are the enumerated        *)
(* subkey names with every subkey named exactly "Names" removed, in the    *)
(* same order.                                                             *)
C4_OneRecordPerUser ==
    LET users == WithoutNames(enumerated)
        records == Records(stdout)
    IN  /\ Len(records) = Len(users)
        /\ \A k \in 1..Len(users) : records[k][1].val = users[k].name

\* The key holds a user subkey named "names" and then the index "Names".
C4_Witness ==
    /\ pc = "done"
    /\ Len(enumerated) = 2
    /\ enumerated[1].name = "names"
    /\ enumerated[2].name = "Names"
    /\ Len(Records(stdout)) = 1
    /\ Records(stdout)[1][1].val = "names"

(* C3: when a user subkey lacks exactly one of V and F, the decoder of the *)
(* present value still runs and its fields are reported, and the error     *)
(* names only the missing value.                                           *)
C3_PresentValueDecoded ==
    LET users == WithoutNames(enumerated)
        records == Records(stdout)
    IN  \A k \in 1..Len(users) :
            k <= Len(records) =>
                /\ (Has(users[k], "V") /\ ~Has(users[k], "F"))
                      => /\ HasLine(records[k], "Username")
                         /\ LineOf(records[k], "Username").val
                               = decode_username(users[k].values["V"]).val
                /\ (Has(users[k], "F") /\ ~Has(users[k], "V"))
                      => /\ HasLine(records[k], "Last Login")
                         /\ HasLine(records[k], "Password Policy")

\* The record reports the three fields, the last login and the policy being
\* what decode_f_value makes of the subkey's F value.
FieldsReported(record, subkey) ==
    /\ Len(record) = 4
    /\ record[2].label = "Username"
    /\ record[3].label = "Last Login"
    /\ record[4].label = "Password Policy"
    /\ decode_f_value(subkey.values["F"]).exc = "none"
    /\ record[3].val = decode_f_value(subkey.values["F"]).val.last_login
    /\ record[4].val = decode_f_value(subkey.values["F"]).val.password_policy

UsernameFailed(record) ==
    /\ HasLine(record, "Username")
    /\ LineOf(record, "Username").val.kind = "message"

(* C5: no field-level failure escapes or stops the enumeration: whatever   *)
(* the bytes of V and F, both decoders return, a failed username decode    *)
(* does not keep the F decode of the same subkey from running, and every   *)
(* later subkey is processed.                                              *)
C5_NoFailureEscapes ==
    LET users == WithoutNames(enumerated)
        records == Records(stdout)
    IN  /\ pc # "raised"
        /\ Len(records) = Len(users)
        /\ \A k \in 1..Len(users) :
              (Has(users[k], "V") /\ Has(users[k], "F"))
                  => FieldsReported(records[k], users[k])

\* A subkey whose V is empty and whose F decodes, then another subkey.
C5_Witness ==
    LET records == Records(stdout)
    IN  /\ Len(records) = 2
        /\ UsernameFailed(records[1])
        /\ HasLine(records[1], "Last Login")
        /\ LineOf(records[1], "Last Login").val = Never
        /\ HasLine(records[2], "Username")

====
